---- MODULE Spec2Model ----
(***************************************************************************)
(* wa-claude bridge: the session registry (SessionManager), the per-project *)
(* agent session (ClaudeSession) and the command router, as one state       *)
(* machine.  Node runs every handler to completion between two suspension   *)
(* points, so each action below is one such run: an inbound user message,   *)
(* one message of the backend stream, the stream ending or raising, a       *)
(* tool-permission request, or the debounce timer firing.                   *)
(***************************************************************************)
EXTENDS Integers, Sequences, FiniteSets, TLC

\* ----------------------------------------------------------------- bounds
\* Session objects that can be alive at once (registered, or removed from
\* the registry while their query is still running).
NumSlots == 2
\* Tool-permission callbacks that can be suspended at once on one session.
MaxCb == 2
\* Conversation ids the backend may issue.
MaxId == 2
\* Characters of text the backend streams in one query.
MaxText == 1
\* The same, where the text stream itself is the subject.
MaxStream == 3

Projects == {"a", "b"}
Slots == 1..NumSlots
CbIds == 1..MaxCb
Ids == 1..MaxId
Null == "null"
NoObj == 0

\* config.claude.allowedTools
allowedTools ==
  {"Read", "Write", "Edit", "Glob", "Grep", "WebFetch", "WebSearch", "NotebookEdit"}
\* The tool names the backend asks permission for.
ToolNames == {"Read", "Bash"}
\* The texts of the backend's text blocks and results.
Texts == {<<"a">>, <<"b">>, <<" ">>}
\* the inputs the backend passes with a tool-permission request
Inputs == {"ls", "rm"}

VARIABLES
  sessions,       \* SessionManager.sessions: the Map, in insertion order
  activeProject,  \* SessionManager.activeProject
  heap,           \* the ClaudeSession objects, by slot
  backend,        \* per session object: the SDK query's stream and its suspended callbacks
  hist,           \* per session object: what the current query has emitted so far
  lastOp,         \* the handler that ran in the last step
  reply,          \* what that handler returned to the router's caller
  sent,           \* the notifications that step sent to the user, in order
  events,         \* the events that step's session objects emitted, in order
  released,       \* the tool-permission callbacks that step released
  delivered,      \* the notifications of that step the WhatsApp API accepted
  started,        \* the queries that step started, with the prompt of each
  listed,         \* the session lines of that step's reply, when it is list()'s
  shown,          \* the text of that step's reply, when it is getFullOutput()'s
  userNumber,     \* server.js: the number replies and notifications are sent to
  allowedNumber   \* config.allowedNumber, "" when the environment does not set it

vars ==
  <<sessions, activeProject, heap, backend, hist, lastOp, reply, sent, events, released,
    delivered, started, listed, shown, userNumber,
    allowedNumber>>

\* ------------------------------------------------------------ text helpers
RECURSIVE TrimLeft(_)
TrimLeft(s) ==
  IF s # <<>> /\ Head(s) = " " THEN TrimLeft(Tail(s)) ELSE s

RECURSIVE TrimRight(_)
TrimRight(s) ==
  IF s # <<>> /\ s[Len(s)] = " " THEN TrimRight(SubSeq(s, 1, Len(s) - 1)) ELSE s

\* String.prototype.trim
Trim(s) == TrimRight(TrimLeft(s))

Min(S) == CHOOSE x \in S : \A y \in S : x <= y

\* The strings the router meets, each with its characters. An inbound text is
\* a sequence of these words and of " " (one whitespace character); words of
\* a text are separated by whitespace.
Spelling ==
  { <<"", <<>>>>,
    <<"/", <<"/">>>>,
    <<"/open", <<"/", "o", "p", "e", "n">>>>,
    <<"/kill", <<"/", "k", "i", "l", "l">>>>,
    <<"/restart", <<"/", "r", "e", "s", "t", "a", "r", "t">>>>,
    <<"/list", <<"/", "l", "i", "s", "t">>>>,
    <<"/status", <<"/", "s", "t", "a", "t", "u", "s">>>>,
    <<"/full", <<"/", "f", "u", "l", "l">>>>,
    <<"/yes", <<"/", "y", "e", "s">>>>,
    <<"/approve", <<"/", "a", "p", "p", "r", "o", "v", "e">>>>,
    <<"/no", <<"/", "n", "o">>>>,
    <<"/deny", <<"/", "d", "e", "n", "y">>>>,
    <<"/cancel", <<"/", "c", "a", "n", "c", "e", "l">>>>,
    <<"/Cancel", <<"/", "C", "a", "n", "c", "e", "l">>>>,
    <<"/help", <<"/", "h", "e", "l", "p">>>>,
    <<"/commit", <<"/", "c", "o", "m", "m", "i", "t">>>>,
    <<"/Commit", <<"/", "C", "o", "m", "m", "i", "t">>>>,
    <<"do", <<"d", "o">>>>,
    <<"it", <<"i", "t">>>>,
    <<"do it", <<"d", "o", " ", "i", "t">>>>,
    <<"a", <<"a">>>>,
    <<"A", <<"A">>>>,
    <<"ab", <<"a", "b">>>>,
    <<"AB", <<"A", "B">>>>,
    <<"b", <<"b">>>>,
    <<"B", <<"B">>>>,
    <<"c", <<"c">>>>,
    <<"d", <<"d">>>>,
    <<"e", <<"e">>>>,
    <<"f", <<"f">>>>,
    <<"g", <<"g">>>>,
    <<"h", <<"h">>>>,
    <<"i", <<"i">>>>,
    <<"j", <<"j">>>>,
    <<"k", <<"k">>>>,
    <<"x", <<"x">>>> }

Chars(word) == (CHOOSE e \in Spelling : e[1] = word)[2]
Word(chars) == (CHOOSE e \in Spelling : e[2] = chars)[1]

\* String.prototype.toLowerCase, on one character and on a word
LowerChar(c) ==
  CASE c = "A" -> "a"
    [] c = "B" -> "b"
    [] c = "C" -> "c"
    [] OTHER   -> c

LowerChars(word) ==
  LET chars == Chars(word)
  IN [i \in 1..Len(chars) |-> LowerChar(chars[i])]

ToLowerCase(word) == Word(LowerChars(word))

\* String.prototype.startsWith, on characters and on words
HasPrefix(chars, prefix) ==
  Len(prefix) <= Len(chars) /\ SubSeq(chars, 1, Len(prefix)) = prefix

StartsWith(word, prefix) == HasPrefix(Chars(word), Chars(prefix))

\* String.prototype.localeCompare(...) < 0 on lower-case letters: alphabetical,
\* a proper prefix first
Alphabet == <<"a", "b", "c", "d", "e", "f", "g", "h", "i", "j", "k">>
Rank(c) == CHOOSE i \in 1..Len(Alphabet) : Alphabet[i] = c

RECURSIVE ComesBefore(_, _)
ComesBefore(x, y) ==
  IF y = <<>> THEN FALSE
  ELSE IF x = <<>> THEN TRUE
  ELSE IF Head(x) # Head(y) THEN Rank(Head(x)) < Rank(Head(y))
  ELSE ComesBefore(Tail(x), Tail(y))

\* text.split(/\s+/) of a trimmed text: its words in order
Split(text) == SelectSeq(text, LAMBDA x : x # " ")

\* parts.join(' '): the characters of the words with one space between them
RECURSIVE JoinChars(_)
JoinChars(parts) ==
  IF parts = <<>> THEN <<>>
  ELSE IF Len(parts) = 1 THEN Chars(parts[1])
  ELSE Chars(parts[1]) \o <<" ">> \o JoinChars(Tail(parts))

Join(parts) == Word(JoinChars(parts))

\* ------------------------------------------------------------ the Map
MapHas(m, p) == \E i \in 1..Len(m) : m[i].name = p

MapGet(m, p) ==
  IF MapHas(m, p) THEN m[CHOOSE i \in 1..Len(m) : m[i].name = p].session ELSE NoObj

MapSet(m, p, o) ==
  IF MapHas(m, p)
  THEN [i \in 1..Len(m) |-> IF m[i].name = p THEN [name |-> p, session |-> o] ELSE m[i]]
  ELSE Append(m, [name |-> p, session |-> o])

MapDelete(m, p) == SelectSeq(m, LAMBDA e : e.name # p)

MapKeys(m) == {m[i].name : i \in 1..Len(m)}

\* ------------------------------------------------------------ objects
\* new ClaudeSession(projectName, projectDir); listeners: whether the
\* manager's event handlers are attached.
NewSession ==
  [ sessionId       |-> 0,
    abortController |-> "null",
    pendingApproval |-> 0,
    textBuffer      |-> <<>>,
    bufferTimer     |-> FALSE,
    isActive        |-> FALSE,
    fullResponse    |-> <<>>,
    listeners       |-> FALSE ]

\* The SDK side of one session object: the stream of the query in flight, the
\* canUseTool calls that have not returned and the input each was called
\* with, the resume option the query was given (0 for none) and the
\* conversation id the backend last issued on this object (0 for none);
\* running counts the send() calls that have not finished.
NoInput == [c \in CbIds |-> Null]
NoQuery ==
  [stream |-> "none", running |-> 0, waiting |-> {}, input |-> NoInput,
   resume |-> 0, issued |-> 0]

\* What the query in flight has done so far: whether interrupt() was called on
\* it (and with an approval outstanding), the 'interrupted' and 'error' events
\* it emitted, the text that arrived since the last flush and in all, and the
\* texts of its text-chunk events.
NoHist ==
  [intr |-> FALSE, intrPend |-> FALSE, nIntr |-> 0, nErr |-> 0,
   window |-> <<>>, arrived |-> <<>>, chunks |-> <<>>, produced |-> <<>>, done |-> FALSE]

\* The world a handler runs in: the program's state and the step's outputs.
Cur ==
  [ sessions      |-> sessions,
    activeProject |-> activeProject,
    heap          |-> heap,
    backend       |-> backend,
    hist          |-> hist,
    sent          |-> <<>>,
    events        |-> <<>>,
    released      |-> <<>>,
    delivered     |-> <<>>,
    started       |-> <<>>,
    listed        |-> <<>>,
    shown         |-> <<>>,
    userNumber    |-> userNumber,
    allowedNumber |-> allowedNumber,
    net           |-> "ok",
    rejected      |-> FALSE,
    ret           |-> "none" ]

\* The same, with the WhatsApp API answering the step's sends as net says.
On(net) == [Cur EXCEPT !.net = net]

Registered(w, o) == \E i \in 1..Len(w.sessions) : w.sessions[i].session = o

\* A session object is reachable while the Map holds it or its send() runs.
InUse(w, o) == Registered(w, o) \/ w.heap[o].isActive \/ w.backend[o].running > 0

FreeSlots(w) == {o \in Slots : ~InUse(w, o)}

\* Unreachable objects are reclaimed: their slot reads as a fresh one.
Collect(w) ==
  [w EXCEPT
    !.heap = [o \in Slots |-> IF InUse(w, o) THEN w.heap[o] ELSE NewSession],
    !.backend = [o \in Slots |-> IF InUse(w, o) THEN w.backend[o] ELSE NoQuery],
    !.hist = [o \in Slots |-> IF InUse(w, o) THEN w.hist[o] ELSE NoHist]]

ProjectOf(w, o) ==
  IF Registered(w, o)
  THEN w.sessions[CHOOSE i \in 1..Len(w.sessions) : w.sessions[i].session = o].name
  ELSE Null

\* ------------------------------------------------------------ event wiring
\* How the Graph API answers: every send accepted, or the interactive ones
\* (buttons, lists) refused.
Nets == {"ok", "interactive-refused"}
Rich == {"buttons", "list"}

\* wa-client's sendButtons / sendList throw when the response is not ok
ApiThrows(w, kind) == kind \in Rich /\ w.net # "ok"

\* The send callbacks wired in server.js (reply, replyButtons, replyList): the
\* wa-client call sits in a try whose catch only logs, so the callback's
\* promise resolves whether the API took the message or not.
Notify(w, kind, o, text) ==
  LET n == [kind |-> kind, obj |-> o, text |-> text]
  IN [w EXCEPT
       !.sent = Append(@, n),
       !.delivered = IF ApiThrows(w, kind) THEN @ ELSE Append(@, n),
       !.rejected = FALSE]

\* The handlers SessionManager.open attaches to a new session.
OnEvent(w, o, name, text) ==
  CASE name = "text-chunk"      -> Notify(w, "text", o, text)
    [] name = "tool-start"      -> Notify(w, "tool", o, <<>>)
    [] name = "approval-needed" ->
         LET w1 == Notify(w, "buttons", o, <<>>)
         IN IF w1.rejected THEN Notify(w1, "buttons-as-text", o, <<>>) ELSE w1
    [] name = "error"           -> Notify(w, "error", o, <<>>)
    [] name = "interrupted"     -> Notify(w, "interrupted", o, <<>>)
    [] OTHER                    -> w

\* EventEmitter.emit
Emit(w, o, name, text) ==
  LET w1 == [w EXCEPT
               !.events = Append(@, [name |-> name, obj |-> o, text |-> text]),
               !.hist[o].nErr = IF name = "error" /\ @ < 2 THEN @ + 1 ELSE @,
               !.hist[o].nIntr = IF name = "interrupted" /\ @ < 2 THEN @ + 1 ELSE @,
               !.hist[o].chunks = IF name = "text-chunk" THEN Append(@, text) ELSE @,
               !.hist[o].done = @ \/ name = "done"]
  IN IF w.heap[o].listeners THEN OnEvent(w1, o, name, text) ELSE w1

\* ------------------------------------------------------------ ClaudeSession
\* a flush that emits the buffer and leaves it as it was
FlushBufferKeepsText(w, o) ==
  LET w1 == [w EXCEPT !.heap[o].bufferTimer = FALSE]
      text == Trim(w.heap[o].textBuffer)
  IN IF text # <<>> THEN Emit(w1, o, "text-chunk", text) ELSE w1

\* a flush that leaves the timer armed
FlushBufferKeepsTimer(w, o) ==
  LET text == Trim(w.heap[o].textBuffer)
  IN IF text # <<>>
     THEN [Emit(w, o, "text-chunk", text) EXCEPT !.heap[o].textBuffer = <<>>]
     ELSE w

\* _flushBuffer
FlushBuffer(w, o) ==
  LET w1 == [w EXCEPT !.heap[o].bufferTimer = FALSE]
      text == Trim(w.heap[o].textBuffer)
  IN IF text # <<>>
     THEN [Emit(w1, o, "text-chunk", text) EXCEPT !.heap[o].textBuffer = <<>>]
     ELSE w1

\* buffering that keeps only the latest arrival
BufferTextKeepsLast(w, o, text) ==
  [w EXCEPT !.heap[o].textBuffer = text, !.heap[o].bufferTimer = TRUE]

\* _bufferText: append and (re)arm the debounce timer
BufferText(w, o, text) ==
  [w EXCEPT !.heap[o].textBuffer = @ \o text, !.heap[o].bufferTimer = TRUE]

\* getFullResponse(): the accumulated text trimmed, or the sentinel
GetFullResponse(w, o) ==
  LET text == Trim(w.heap[o].fullResponse)
  IN IF text # <<>>
     THEN [ret |-> "Full", text |-> text]
     ELSE [ret |-> "NoRecentOutput", text |-> <<>>]

\* a send that keeps the text of the query before
SendStartKeepsFullResponse(w, o, prompt) ==
  [w EXCEPT
    !.started = Append(@, [obj |-> o, prompt |-> prompt]),
    !.heap[o].isActive = TRUE,
    !.heap[o].textBuffer = <<>>,
    !.heap[o].abortController = "fresh",
    !.backend[o].stream = "open",
    !.backend[o].running = IF @ < 2 THEN @ + 1 ELSE @,
    !.backend[o].resume = w.heap[o].sessionId,
    !.hist[o] = NoHist]

\* send(prompt) up to its first await: the flags, the AbortController and the
\* query({ prompt, options }) call, which opens the backend's stream.
SendStart(w, o, prompt) ==
  [w EXCEPT
    !.started = Append(@, [obj |-> o, prompt |-> prompt]),
    !.heap[o].isActive = TRUE,
    !.heap[o].fullResponse = <<>>,
    !.heap[o].textBuffer = <<>>,
    !.heap[o].abortController = "fresh",
    !.backend[o].stream = "open",
    !.backend[o].running = IF @ < 2 THEN @ + 1 ELSE @,
    !.backend[o].resume = w.heap[o].sessionId,
    !.hist[o] = NoHist]

\* a catch block that reports every error as an interruption
SendCatchAlwaysInterrupted(w, o, errName) == Emit(w, o, "interrupted", <<>>)

\* a catch block that goes by the error's name alone
SendCatchByNameOnly(w, o, errName) ==
  IF errName = "AbortError"
  THEN Emit(w, o, "interrupted", <<>>)
  ELSE Emit(w, o, "error", <<>>)

\* send's catch block: interrupted or error, by error name or signal state
SendCatch(w, o, errName) ==
  IF errName = "AbortError" \/ w.heap[o].abortController = "aborted"
  THEN Emit(w, o, "interrupted", <<>>)
  ELSE Emit(w, o, "error", <<>>)

\* a finally block that resets the flags without flushing the buffer
SendFinallyNoFlush(w, o) ==
  [w EXCEPT
    !.heap[o].isActive = FALSE,
    !.heap[o].abortController = "null",
    !.backend[o].stream = "none",
    !.backend[o].resume = 0,
    !.backend[o].running = IF @ > 0 THEN @ - 1 ELSE @]

\* send's finally block; the stream is over when it runs
SendFinally(w, o) ==
  [FlushBuffer(w, o) EXCEPT
    !.heap[o].isActive = FALSE,
    !.heap[o].abortController = "null",
    !.backend[o].stream = "none",
    !.backend[o].resume = 0,
    !.backend[o].running = IF @ > 0 THEN @ - 1 ELSE @]

\* What _handleToolApproval hands back to the SDK: 'allow' with the input it
\* was called with, the denial with interrupt false, or (how = "reject") the
\* rejection it throws.
Returned(o, c, how, input) ==
  [obj |-> o, cb |-> c, how |-> how,
   updatedInput |-> IF how = "allow" THEN input ELSE Null,
   interrupt |-> IF how = "deny" THEN "false" ELSE Null]

\* Callback c of session o stops waiting and returns.
Release(w, o, c, how) ==
  [w EXCEPT
    !.backend[o].waiting = @ \ {c},
    !.backend[o].input[c] = Null,
    !.released = Append(@, Returned(o, c, how, w.backend[o].input[c]))]

\* The promise held in _pendingApproval settles; only a callback that is
\* still suspended on it is released.
Settle(w, o, how) ==
  LET c == w.heap[o].pendingApproval
  IN IF c \in w.backend[o].waiting THEN Release(w, o, c, how) ELSE w

\* interrupt()
Interrupt(w, o) ==
  LET h == w.heap[o]
      w1 == [w EXCEPT
               !.heap[o].abortController = IF @ # "null" THEN "aborted" ELSE @,
               !.hist[o].intr = @ \/ h.isActive,
               !.hist[o].intrPend =
                 @ \/ (h.isActive /\ h.pendingApproval \in w.backend[o].waiting)]
  IN IF h.pendingApproval # 0
     THEN [Settle(w1, o, "reject") EXCEPT !.heap[o].pendingApproval = 0]
     ELSE w1

\* a resolution whose denial also aborts the query
ResolveDenialAborts(w, o, approved) ==
  IF w.heap[o].pendingApproval = 0
  THEN [w EXCEPT !.ret = "false"]
  ELSE [Settle(w, o, IF approved THEN "allow" ELSE "deny") EXCEPT
         !.heap[o].pendingApproval = 0,
         !.heap[o].abortController = IF approved THEN @ ELSE "aborted",
         !.ret = "true"]

\* resolvePendingApproval(approved); ret is its return value
ResolvePendingApproval(w, o, approved) ==
  IF w.heap[o].pendingApproval = 0
  THEN [w EXCEPT !.ret = "false"]
  ELSE [Settle(w, o, IF approved THEN "allow" ELSE "deny") EXCEPT
         !.heap[o].pendingApproval = 0,
         !.ret = "true"]

\* The callback ids not in use on session o.
FreeCbs(w, o) == (CbIds \ w.backend[o].waiting) \ {w.heap[o].pendingApproval}

\* The callbacks session o holds: suspended, or still referenced by the slot.
HeldCbs(w, o) == w.backend[o].waiting \cup ({w.heap[o].pendingApproval} \ {0})

\* a permission callback that asks the user about every tool
HandleToolApprovalAsksAlways(w, o, toolName, input, c) ==
  [Emit(w, o, "approval-needed", <<>>) EXCEPT
    !.heap[o].pendingApproval = c,
    !.backend[o].waiting = @ \cup {c},
    !.backend[o].input[c] = input]

\* _handleToolApproval up to its await (or its return, for an allow-listed
\* tool): c is the new suspended callback.
HandleToolApproval(w, o, toolName, input, c) ==
  IF toolName \in allowedTools
  THEN [w EXCEPT !.released = Append(@, Returned(o, 0, "allow", input))]
  ELSE [Emit(w, o, "approval-needed", <<>>) EXCEPT
         !.heap[o].pendingApproval = c,
         !.backend[o].waiting = @ \cup {c},
         !.backend[o].input[c] = input]

\* _processAssistantMessage: the content blocks in order
RECURSIVE ProcessBlocks(_, _, _)
ProcessBlocks(w, o, content) ==
  IF content = <<>> THEN w
  ELSE LET block == Head(content)
           w1 == IF block.type = "text" /\ block.text # <<>>
                 THEN BufferText([w EXCEPT
                                    !.heap[o].fullResponse = @ \o block.text,
                                    !.hist[o].window = @ \o block.text,
                                    !.hist[o].arrived = @ \o block.text,
                                    !.hist[o].produced = @ \o block.text],
                                 o, block.text)
                 ELSE IF block.type = "tool_use"
                 THEN Emit(w, o, "tool-start", <<>>)
                 ELSE w
       IN ProcessBlocks(w1, o, Tail(content))

\* _handleResult
HandleResult(w, o, message) ==
  IF message.subtype = "success"
  THEN LET fallback == Trim(w.heap[o].fullResponse) = <<>> /\ Trim(message.result) # <<>>
           w1 == IF fallback
                 THEN Emit([w EXCEPT
                              !.heap[o].fullResponse = message.result,
                              !.hist[o].arrived = @ \o message.result,
                              !.hist[o].produced = @ \o message.result],
                           o, "text-chunk", message.result)
                 ELSE w
       IN Emit(w1, o, "done", <<>>)
  ELSE Emit(w, o, "error", <<>>)

\* The body of send's for-await loop for one message.
ProcessMessage(w, o, message) ==
  CASE message.type = "system" ->
         IF message.subtype = "init"
         THEN [w EXCEPT !.heap[o].sessionId = message.session_id]
         ELSE w
    [] message.type = "assistant" ->
         ProcessBlocks(
           IF message.session_id # 0
           THEN [w EXCEPT !.heap[o].sessionId = message.session_id]
           ELSE w,
           o, message.content)
    [] message.type = "result" ->
         [HandleResult(w, o, message) EXCEPT !.backend[o].stream = "resulted"]
    [] OTHER -> w

\* ------------------------------------------------------------ SessionManager
\* open that rebuilds the session object of a project that has one
OpenRecreates(w, projectName, fs) ==
  IF projectName \notin fs
  THEN [w EXCEPT !.ret = "NotFound"]
  ELSE IF MapHas(w.sessions, projectName)
  THEN [w EXCEPT
         !.heap[MapGet(w.sessions, projectName)] = [NewSession EXCEPT !.listeners = TRUE],
         !.activeProject = projectName,
         !.ret = "SwitchedIdle"]
  ELSE LET o == Min(FreeSlots(w))
       IN [w EXCEPT
            !.heap[o] = [NewSession EXCEPT !.listeners = TRUE],
            !.sessions = MapSet(@, projectName, o),
            !.activeProject = projectName,
            !.ret = "Opened"]

\* open that makes the project active before it looks for its directory
OpenActivatesUnchecked(w, projectName, fs) ==
  IF projectName \notin fs
  THEN [w EXCEPT !.activeProject = projectName, !.ret = "NotFound"]
  ELSE IF MapHas(w.sessions, projectName)
  THEN [w EXCEPT
         !.activeProject = projectName,
         !.ret = IF w.heap[MapGet(w.sessions, projectName)].isActive
                 THEN "SwitchedActive" ELSE "SwitchedIdle"]
  ELSE LET o == Min(FreeSlots(w))
       IN [w EXCEPT
            !.heap[o] = [NewSession EXCEPT !.listeners = TRUE],
            !.sessions = MapSet(@, projectName, o),
            !.activeProject = projectName,
            !.ret = "Opened"]

\* open(projectName): fs is the set of projects whose directory exists when
\* existsSync looks; a new session takes the lowest free slot
Open(w, projectName, fs) ==
  IF projectName \notin fs
  THEN [w EXCEPT !.ret = "NotFound"]
  ELSE IF MapHas(w.sessions, projectName)
  THEN [w EXCEPT
         !.activeProject = projectName,
         !.ret = IF w.heap[MapGet(w.sessions, projectName)].isActive
                 THEN "SwitchedActive" ELSE "SwitchedIdle"]
  ELSE LET o == Min(FreeSlots(w))
       IN [w EXCEPT
            !.heap[o] = [NewSession EXCEPT !.listeners = TRUE],
            !.sessions = MapSet(@, projectName, o),
            !.activeProject = projectName,
            !.ret = "Opened"]

\* open needs a slot only when it creates a session
CanOpen(w, projectName, fs) ==
  \/ projectName \notin fs
  \/ MapHas(w.sessions, projectName)
  \/ FreeSlots(w) # {}

\* relay without the isActive check: a second send() starts on a busy session
RelayNoBusyCheck(w, text) ==
  IF w.activeProject = Null
  THEN [w EXCEPT !.ret = "NoActiveSession"]
  ELSE IF ~MapHas(w.sessions, w.activeProject)
  THEN [w EXCEPT !.ret = "SessionNotFound"]
  ELSE LET o == MapGet(w.sessions, w.activeProject)
       IN SendStart(Notify(w, "ack", o, <<>>), o, text)

\* relay that acknowledges before it looks at isActive
RelayAckFirst(w, text) ==
  IF w.activeProject = Null
  THEN [w EXCEPT !.ret = "NoActiveSession"]
  ELSE IF ~MapHas(w.sessions, w.activeProject)
  THEN [w EXCEPT !.ret = "SessionNotFound"]
  ELSE LET o == MapGet(w.sessions, w.activeProject)
           w1 == Notify(w, "ack", o, <<>>)
       IN IF w.heap[o].isActive
          THEN [w1 EXCEPT !.ret = "SessionBusy"]
          ELSE SendStart(w1, o, text)

\* relay that acknowledges before it finds there is no active project
RelayAcksWithoutActive(w, text) ==
  IF w.activeProject = Null
  THEN [Notify(w, "ack", NoObj, <<>>) EXCEPT !.ret = "NoActiveSession"]
  ELSE IF ~MapHas(w.sessions, w.activeProject)
  THEN [w EXCEPT !.ret = "SessionNotFound"]
  ELSE LET o == MapGet(w.sessions, w.activeProject)
       IN IF w.heap[o].isActive
          THEN [w EXCEPT !.ret = "SessionBusy"]
          ELSE SendStart(Notify(w, "ack", o, <<>>), o, text)

\* relay(text)
Relay(w, text) ==
  IF w.activeProject = Null
  THEN [w EXCEPT !.ret = "NoActiveSession"]
  ELSE IF ~MapHas(w.sessions, w.activeProject)
  THEN [w EXCEPT !.ret = "SessionNotFound"]
  ELSE LET o == MapGet(w.sessions, w.activeProject)
       IN IF w.heap[o].isActive
          THEN [w EXCEPT !.ret = "SessionBusy"]
          ELSE SendStart(Notify(w, "ack", o, <<>>), o, text)

\* approveAction(approved)
ApproveAction(w, approved) ==
  IF w.activeProject = Null \/ ~MapHas(w.sessions, w.activeProject)
  THEN [w EXCEPT !.ret = "NoActiveSession"]
  ELSE LET w1 == ResolvePendingApproval(w, MapGet(w.sessions, w.activeProject), approved)
       IN IF w1.ret = "false"
          THEN [w1 EXCEPT !.ret = "NoPendingApproval"]
          ELSE [w1 EXCEPT !.ret = IF approved THEN "Approved" ELSE "Denied"]

\* cancel()
Cancel(w) ==
  IF w.activeProject = Null \/ ~MapHas(w.sessions, w.activeProject)
  THEN [w EXCEPT !.ret = "NoActiveSession"]
  ELSE LET o == MapGet(w.sessions, w.activeProject)
       IN IF ~w.heap[o].isActive
          THEN [w EXCEPT !.ret = "NothingToCancel"]
          ELSE [Interrupt(w, o) EXCEPT !.ret = "Cancelling"]

\* kill that leaves activeProject as it was
KillKeepsActive(w, projectName) ==
  IF ~MapHas(w.sessions, projectName)
  THEN [w EXCEPT !.ret = "NoSessionFound"]
  ELSE LET o == MapGet(w.sessions, projectName)
           w1 == IF w.heap[o].isActive THEN Interrupt(w, o) ELSE w
       IN Collect([w1 EXCEPT
            !.heap[o].listeners = FALSE,
            !.sessions = MapDelete(@, projectName),
            !.ret = "Killed"])

\* kill that interrupts and detaches the session but leaves it in the Map
KillKeepsEntry(w, projectName) ==
  IF ~MapHas(w.sessions, projectName)
  THEN [w EXCEPT !.ret = "NoSessionFound"]
  ELSE LET o == MapGet(w.sessions, projectName)
           w1 == IF w.heap[o].isActive THEN Interrupt(w, o) ELSE w
       IN [w1 EXCEPT
            !.heap[o].listeners = FALSE,
            !.activeProject = IF @ = projectName THEN Null ELSE @,
            !.ret = "Killed"]

\* kill that clears activeProject whichever project it removes
KillClearsActive(w, projectName) ==
  IF ~MapHas(w.sessions, projectName)
  THEN [w EXCEPT !.ret = "NoSessionFound"]
  ELSE LET o == MapGet(w.sessions, projectName)
           w1 == IF w.heap[o].isActive THEN Interrupt(w, o) ELSE w
       IN Collect([w1 EXCEPT
            !.heap[o].listeners = FALSE,
            !.sessions = MapDelete(@, projectName),
            !.activeProject = Null,
            !.ret = "Killed"])

\* kill without removeAllListeners
KillKeepsListeners(w, projectName) ==
  IF ~MapHas(w.sessions, projectName)
  THEN [w EXCEPT !.ret = "NoSessionFound"]
  ELSE LET o == MapGet(w.sessions, projectName)
           w1 == IF w.heap[o].isActive THEN Interrupt(w, o) ELSE w
       IN Collect([w1 EXCEPT
            !.sessions = MapDelete(@, projectName),
            !.activeProject = IF @ = projectName THEN Null ELSE @,
            !.ret = "Killed"])

\* kill(projectName)
Kill(w, projectName) ==
  IF ~MapHas(w.sessions, projectName)
  THEN [w EXCEPT !.ret = "NoSessionFound"]
  ELSE LET o == MapGet(w.sessions, projectName)
           w1 == IF w.heap[o].isActive THEN Interrupt(w, o) ELSE w
       IN Collect([w1 EXCEPT
            !.heap[o].listeners = FALSE,
            !.sessions = MapDelete(@, projectName),
            !.activeProject = IF @ = projectName THEN Null ELSE @,
            !.ret = "Killed"])

\* One line of list(): the marker, the name, the state and the conversation id
ListLine(w, e) ==
  [ marker |-> e.name = w.activeProject,
    name   |-> e.name,
    state  |-> IF w.heap[e.session].isActive THEN "working" ELSE "idle",
    sid    |-> w.heap[e.session].sessionId ]

\* a list that puts the active project's line first
ListActiveFirst(w) ==
  IF w.sessions = <<>>
  THEN [w EXCEPT !.ret = "NoSessions"]
  ELSE LET lines == [i \in 1..Len(w.sessions) |-> ListLine(w, w.sessions[i])]
       IN [w EXCEPT
            !.listed = SelectSeq(lines, LAMBDA l : l.marker)
                         \o SelectSeq(lines, LAMBDA l : ~l.marker),
            !.ret = "Sessions"]

\* list(): one line per entry of the Map, in the Map's iteration order
List(w) ==
  IF w.sessions = <<>>
  THEN [w EXCEPT !.ret = "NoSessions"]
  ELSE [w EXCEPT
         !.listed = [i \in 1..Len(w.sessions) |-> ListLine(w, w.sessions[i])],
         !.ret = "Sessions"]

\* getFullOutput()
GetFullOutput(w) ==
  IF w.activeProject = Null
  THEN [w EXCEPT !.ret = "NoActiveSession"]
  ELSE LET o == MapGet(w.sessions, w.activeProject)
       IN IF o = NoObj
          THEN [w EXCEPT !.ret = "NoRecentOutput"]
          ELSE [w EXCEPT !.ret = GetFullResponse(w, o).ret,
                         !.shown = GetFullResponse(w, o).text]

\* a restart that reopens without killing first
RestartReopensOnly(w, projectName, fs) ==
  LET target == IF projectName # "" THEN projectName ELSE w.activeProject
  IN IF target = Null
     THEN [w EXCEPT !.ret = "NoProjectSpecified"]
     ELSE IF ~MapHas(w.sessions, target)
     THEN [w EXCEPT !.ret = "NoSessionFound"]
     ELSE Open(w, target, fs)

\* restart(projectName); "" stands for no argument
RestartTarget(w, projectName) ==
  IF projectName # "" THEN projectName ELSE w.activeProject

Restart(w, projectName, fs) ==
  LET target == RestartTarget(w, projectName)
  IN IF target = Null
     THEN [w EXCEPT !.ret = "NoProjectSpecified"]
     ELSE IF ~MapHas(w.sessions, target)
     THEN [w EXCEPT !.ret = "NoSessionFound"]
     ELSE Open(Kill(w, target), target, fs)

CanRestart(w, projectName, fs) ==
  LET target == RestartTarget(w, projectName)
  IN target # Null /\ MapHas(w.sessions, target) => CanOpen(Kill(w, target), target, fs)

\* ------------------------------------------------------------ CommandRouter
\* An inbound message: text is the message body, and buttonReplyId is
\* [kind, proj] (kind "" for none; kind "open" is a plain project id, the
\* other kinds are the ids approve, deny, kill_<proj>, restart_<proj>).
NoButton == [kind |-> "", proj |-> ""]
Button(kind, proj) == [kind |-> kind, proj |-> proj]

\* The body "<cmd> <arg>", either part possibly empty.
Text(cmd, arg) ==
  IF cmd = "" THEN (IF arg = "" THEN <<>> ELSE <<arg>>)
  ELSE IF arg = "" THEN <<cmd>>
  ELSE <<cmd, " ", arg>>

\* handleButtonReply(buttonId)
HandleButtonReply(w, buttonId, fs) ==
  CASE buttonId.kind = "approve" -> ApproveAction(w, TRUE)
    [] buttonId.kind = "deny"    -> ApproveAction(w, FALSE)
    [] buttonId.kind = "kill"    -> Kill(w, buttonId.proj)
    [] buttonId.kind = "restart" -> Restart(w, buttonId.proj, fs)
    [] OTHER                     -> Open(w, buttonId.proj, fs)

\* WhatsApp's cap on the rows of a list
MaxRows == 10

\* showProjectList: the projects whose title starts with the filter, case
\* ignored (all of them when there is no filter)
Matched(filter, fs) ==
  IF filter # "" THEN {p \in fs : HasPrefix(LowerChars(p), LowerChars(filter))} ELSE fs

\* showProjectList's comparator: projects with a session first, then by
\* lower-cased title
RowBefore(a, b, activeSessions) ==
  IF a \in activeSessions /\ b \notin activeSessions THEN TRUE
  ELSE IF a \notin activeSessions /\ b \in activeSessions THEN FALSE
  ELSE ComesBefore(LowerChars(a), LowerChars(b))

\* [...matched].sort(comparator)
RECURSIVE Sorted(_, _)
Sorted(matched, activeSessions) ==
  IF matched = {} THEN <<>>
  ELSE LET first == CHOOSE a \in matched :
                      \A b \in matched \ {a} : RowBefore(a, b, activeSessions)
       IN <<first>> \o Sorted(matched \ {first}, activeSessions)

\* a listing in plain alphabetical order
DisplayAlphabetical(w, filter, fs) ==
  LET sorted == Sorted(Matched(filter, fs), {})
  IN SubSeq(sorted, 1, Min({Len(sorted), MaxRows}))

\* tagged.slice(0, 10): the rows showProjectList offers
Display(w, filter, fs) ==
  LET sorted == Sorted(Matched(filter, fs), MapKeys(w.sessions))
  IN SubSeq(sorted, 1, Min({Len(sorted), MaxRows}))

\* showProjectList that opens on a single match only if the filter is the
\* whole title
ShowProjectListOpensExactOnly(w, filter, fs) ==
  LET matched == Matched(filter, fs)
      exact == {p \in fs : LowerChars(p) = LowerChars(filter)}
  IN IF fs = {} THEN [w EXCEPT !.ret = "NoProjects"]
     ELSE IF filter # "" /\ Cardinality(matched) = 1 /\ exact # {}
     THEN Open(w, CHOOSE p \in matched : TRUE, fs)
     ELSE IF filter # "" /\ matched = {}
     THEN [w EXCEPT !.ret = "NoMatch"]
     ELSE LET w1 == Notify(w, "list", NoObj, Display(w, filter, fs))
          IN [w1 EXCEPT !.ret = IF w1.rejected THEN "ProjectListAsText" ELSE "none"]

\* showProjectList(filter); fs is what getAvailableProjects finds, and "" is
\* no filter. No two titles of fs are equal when case is ignored, so find()
\* has at most one candidate.
ShowProjectList(w, filter, fs) ==
  LET matched == Matched(filter, fs)
      exact == {p \in fs : LowerChars(p) = LowerChars(filter)}
  IN IF fs = {} THEN [w EXCEPT !.ret = "NoProjects"]
     ELSE IF filter # "" /\ Cardinality(matched) = 1
     THEN Open(w, CHOOSE p \in matched : TRUE, fs)
     ELSE IF filter # "" /\ matched = {}
     THEN IF exact # {}
          THEN Open(w, CHOOSE p \in exact : TRUE, fs)
          ELSE [w EXCEPT !.ret = "NoMatch"]
     ELSE LET w1 == Notify(w, "list", NoObj, Display(w, filter, fs))
          IN [w1 EXCEPT !.ret = IF w1.rejected THEN "ProjectListAsText" ELSE "none"]

\* /open <filter> needs a slot only when it opens a project without session
CanShowProjectList(w, filter, fs) ==
  (filter # "" /\ Cardinality(Matched(filter, fs)) = 1) =>
     CanOpen(w, CHOOSE p \in Matched(filter, fs) : TRUE, fs)

\* showKillList
ShowKillList(w) ==
  IF w.sessions = <<>>
  THEN [w EXCEPT !.ret = "NoSessionsToKill"]
  ELSE LET w1 == Notify(w, "list", NoObj, <<>>)
       IN [w1 EXCEPT !.ret = IF w1.rejected THEN "KillListAsText" ELSE "none"]

\* showRestartList
ShowRestartList(w) ==
  IF w.sessions = <<>>
  THEN [w EXCEPT !.ret = "NoSessionsToRestart"]
  ELSE LET w1 == Notify(w, "list", NoObj, <<>>)
       IN [w1 EXCEPT !.ret = IF w1.rejected THEN "RestartListAsText" ELSE "none"]

\* handleCommand that lower-cases the command word of what it relays
HandleCommandRelaysLowered(w, text, fs) ==
  LET parts == Split(text)
      cmd == ToLowerCase(parts[1])
      arg == Join(Tail(parts))
  IN CASE cmd = "/open" -> ShowProjectList(w, arg, fs)
       [] cmd = "/kill" -> IF arg = "" THEN ShowKillList(w) ELSE Kill(w, arg)
       [] cmd = "/restart" -> IF arg = "" THEN ShowRestartList(w) ELSE Restart(w, arg, fs)
       [] cmd = "/list" -> List(w)
       [] cmd = "/full" -> GetFullOutput(w)
       [] cmd \in {"/status", "/help"} -> [w EXCEPT !.ret = "Shown"]
       [] cmd \in {"/yes", "/approve"} -> ApproveAction(w, TRUE)
       [] cmd \in {"/no", "/deny"}     -> ApproveAction(w, FALSE)
       [] cmd = "/cancel"              -> Cancel(w)
       [] OTHER -> Relay(w, [i \in 1..Len(text) |->
                               IF i = 1 THEN ToLowerCase(text[i]) ELSE text[i]])

\* handleCommand(text): the command word is compared in lower case; the
\* listings change no session state; a command the router does not know is
\* relayed as it came
HandleCommand(w, text, fs) ==
  LET parts == Split(text)
      cmd == ToLowerCase(parts[1])
      arg == Join(Tail(parts))
  IN CASE cmd = "/open" -> ShowProjectList(w, arg, fs)
       [] cmd = "/kill" -> IF arg = "" THEN ShowKillList(w) ELSE Kill(w, arg)
       [] cmd = "/restart" -> IF arg = "" THEN ShowRestartList(w) ELSE Restart(w, arg, fs)
       [] cmd = "/list" -> List(w)
       [] cmd = "/full" -> GetFullOutput(w)
       [] cmd \in {"/status", "/help"} -> [w EXCEPT !.ret = "Shown"]
       [] cmd \in {"/yes", "/approve"} -> ApproveAction(w, TRUE)
       [] cmd \in {"/no", "/deny"}     -> ApproveAction(w, FALSE)
       [] cmd = "/cancel"              -> Cancel(w)
       [] OTHER                        -> Relay(w, text)

\* handle(text, buttonReplyId), with the file system fs it runs against
Handle(w, text, buttonReplyId, fs) ==
  LET trimmed == Trim(text)
  IN IF buttonReplyId.kind # ""
     THEN HandleButtonReply(w, buttonReplyId, fs)
     ELSE IF trimmed # <<>> /\ StartsWith(trimmed[1], "/")
     THEN HandleCommand(w, trimmed, fs)
     ELSE Relay(w, trimmed)

\* ------------------------------------------------------------ server, webhook
\* The number the README has the operator configure, and another one.
Owner == "owner"
Stranger == "stranger"

\* webhook.onMessage({from, text, buttonReplyId}): remembers the sender as the
\* recipient of everything sent from now on, then routes the message.
OnMessage(w, from, text, buttonReplyId, fs) ==
  Handle([w EXCEPT !.userNumber = from], text, buttonReplyId, fs)

\* POST /webhook with a text or interactive message from the number from
Post(w, from, text, buttonReplyId, fs) ==
  IF w.allowedNumber # "" /\ from # w.allowedNumber
  THEN w
  ELSE IF text = <<>> /\ buttonReplyId.kind = ""
  THEN w
  ELSE OnMessage(w, from, text, buttonReplyId, fs)

\* ------------------------------------------------------------ steps
Op(name, proj, o, arg) ==
  [op |-> name, proj |-> proj, obj |-> o, arg |-> arg, input |-> Null, text |-> <<>>,
   fs |-> {}, fin |-> NoHist, from |-> Owner]

\* One handler has run: w is the world it leaves, op what ran.
Step(w, op) ==
  /\ sessions' = w.sessions
  /\ activeProject' = w.activeProject
  /\ heap' = w.heap
  /\ backend' = w.backend
  /\ hist' = w.hist
  /\ sent' = w.sent
  /\ events' = w.events
  /\ released' = w.released
  /\ delivered' = w.delivered
  /\ started' = w.started
  /\ listed' = w.listed
  /\ shown' = w.shown
  /\ userNumber' = w.userNumber
  /\ allowedNumber' = w.allowedNumber
  /\ reply' = w.ret
  /\ lastOp' = op

ActiveObj == MapGet(sessions, activeProject)

\* The file systems a handler may find: project p's directory there or not.
FileSystems(p) == {Projects, Projects \ {p}}

\* The user taps project p in the selection list.
UserOpen(p, fs) ==
  /\ CanOpen(Cur, p, fs)
  /\ Step(Post(Cur, Owner, Text("", ""), Button("open", p), fs),
          Op("open", p, MapGet(sessions, p), IF p \in fs THEN "found" ELSE "missing"))

\* The user sends free-form text, or a slash command the router does not know.
UserRelay(cmd) ==
  Step(Post(Cur, Owner, Text(cmd, "do"), NoButton, Projects),
       Op("relay", activeProject, ActiveObj, ""))

\* The sessions whose approval request is on the user's screen and unanswered.
Offering == {o \in Slots : heap[o].listeners /\ heap[o].pendingApproval \in backend[o].waiting}

\* The user answers an approval request: by typing /yes or /no (origin 0), or
\* by tapping the button that session origin's request showed.
UserApprove(approved, origin) ==
  /\ origin = NoObj \/ origin \in Offering
  /\ Step(IF origin = NoObj
          THEN Post(Cur, Owner, Text(IF approved THEN "/yes" ELSE "/no", ""), NoButton, Projects)
          ELSE Post(Cur, Owner, Text("", ""),
                      Button(IF approved THEN "approve" ELSE "deny", ""), Projects),
          Op("approve", activeProject, origin, ""))

UserCancel ==
  Step(Post(Cur, Owner, Text("/cancel", ""), NoButton, Projects),
       Op("cancel", activeProject, ActiveObj, ""))

\* /kill <p>, or a tap on kill_<p>
UserKill(p, tap) ==
  Step(IF tap
       THEN Post(Cur, Owner, Text("", ""), Button("kill", p), Projects)
       ELSE Post(Cur, Owner, Text("/kill", p), NoButton, Projects),
       Op("kill", p, MapGet(sessions, p), ""))

\* /restart <p>, or a tap on restart_<p>; p = "" is the id "restart_"
UserRestart(p, fs) ==
  /\ CanRestart(Cur, p, fs)
  /\ Step(IF p = ""
          THEN Post(Cur, Owner, Text("", ""), Button("restart", p), fs)
          ELSE Post(Cur, Owner, Text("/restart", p), NoButton, fs),
          Op("restart", p, MapGet(sessions, RestartTarget(Cur, p)), ""))

\* The user sends the message body text as typed.
UserText(text) ==
  Step(Post(Cur, Owner, text, NoButton, Projects),
       [Op("text", activeProject, ActiveObj, "") EXCEPT !.text = text])

\* /list
UserList ==
  Step(Post(Cur, Owner, Text("/list", ""), NoButton, Projects),
       Op("list", activeProject, ActiveObj, ""))

\* /full
UserFull ==
  Step(Post(Cur, Owner, Text("/full", ""), NoButton, Projects),
       Op("full", activeProject, ActiveObj, ""))

\* /open <filter> ("" for a bare /open) against the projects fs of the
\* project root.
UserOpenFilter(filter, fs, net) ==
  /\ CanShowProjectList(Cur, filter, fs)
  /\ Step(Post(On(net), Owner, Text("/open", filter), NoButton, fs),
          [Op("filter", activeProject, NoObj, filter) EXCEPT !.fs = fs])

\* /open, /kill or /restart with no argument: the router shows its list
UserMenu(cmd, net) ==
  Step(Post(On(net), Owner, Text(cmd, ""), NoButton, Projects),
       Op("menu", activeProject, NoObj, cmd))

\* The number from posts a message to the webhook: the body text, or a tap on
\* buttonReplyId.
UserPost(from, text, buttonReplyId) ==
  /\ buttonReplyId.kind = "open" => CanOpen(Cur, buttonReplyId.proj, Projects)
  /\ Step(Post(Cur, from, text, buttonReplyId, Projects),
          [Op("post", activeProject, ActiveObj, "") EXCEPT !.from = from, !.text = text])

\* ------------------------------------------------------------ the backend
TextBlock(t) == [type |-> "text", text |-> t]
ToolUseBlock == [type |-> "tool_use", text |-> <<>>]
Message(type, subtype, sid, content, result) ==
  [type |-> type, subtype |-> subtype, session_id |-> sid,
   content |-> content, result |-> result]

Messages ==
  {Message("system", "init", i, <<>>, <<>>) : i \in Ids}
  \cup {Message("assistant", "", i, <<TextBlock(t)>>, <<>>) : i \in {0} \cup Ids, t \in Texts}
  \cup {Message("assistant", "", 0, <<ToolUseBlock>>, <<>>)}
  \cup {Message("result", "success", 0, <<>>, r) : r \in {<<>>} \cup Texts}
  \cup {Message("result", "error_max_turns", 0, <<>>, <<>>)}
  \cup {Message("user", "", 0, <<>>, <<>>)}

\* The texts a message carries.
TextsOf(message) ==
  {message.content[i].text : i \in {j \in 1..Len(message.content) : message.content[j].type = "text"}}
    \cup ({message.result} \ {<<>>})

RECURSIVE TextLen(_)
TextLen(content) ==
  IF content = <<>> THEN 0 ELSE Len(Head(content).text) + TextLen(Tail(content))

\* send() has left its loop: the finally block runs and send() returns.
Finish(w, o, how) ==
  LET w1 == SendFinally(w, o)
      w2 == Collect([w1 EXCEPT !.hist[o] = [NoHist EXCEPT !.produced = w1.hist[o].produced]])
  IN Step(w2, [Op("finish", ProjectOf(w, o), o, how) EXCEPT !.fin = w1.hist[o]])

\* The stream yields a message: the loop breaks if the abort was signalled,
\* and processes the message otherwise.
StreamMessage(o, message, maxText) ==
  /\ backend[o].stream = "open"
  /\ Len(heap[o].fullResponse) + TextLen(message.content) <= maxText
  /\ LET w == [Cur EXCEPT !.backend[o].issued =
                              IF message.session_id # 0 THEN message.session_id ELSE @]
     IN IF heap[o].abortController = "aborted"
        THEN Finish(w, o, "break")
        ELSE Step(ProcessMessage(w, o, message),
                  Op("message", ProjectOf(Cur, o), o, message.type))

\* The stream ends.
StreamEnd(o) ==
  /\ backend[o].stream # "none"
  /\ Finish(Cur, o, "end")

\* The stream raises.
StreamThrow(o, errName) ==
  /\ backend[o].stream # "none"
  /\ Finish(SendCatch(Cur, o, errName), o, errName)

\* The SDK calls canUseTool; at most limit callbacks are held at once.
ToolRequest(o, toolName, input, limit, net) ==
  /\ backend[o].stream = "open"
  /\ toolName \in allowedTools \/ Cardinality(HeldCbs(Cur, o)) < limit
  /\ Step(HandleToolApproval(On(net), o, toolName, input,
            IF toolName \in allowedTools THEN 0 ELSE Min(FreeCbs(Cur, o))),
          [Op("tool", ProjectOf(Cur, o), o, toolName) EXCEPT !.input = input])

\* The SDK aborts the signal it gave a suspended canUseTool call: the abort
\* listener rejects that call's promise.
ToolSignalAbort(o, c) ==
  /\ backend[o].stream # "none"
  /\ c \in backend[o].waiting
  /\ Step(Release(Cur, o, c, "reject"), Op("signal", ProjectOf(Cur, o), o, ""))

\* The debounce timer fires.
TimerFire(o) ==
  /\ heap[o].bufferTimer
  /\ LET w1 == FlushBuffer(Cur, o)
     IN Step([w1 EXCEPT !.hist[o].window = <<>>],
             [Op("timer", ProjectOf(Cur, o), o, "") EXCEPT !.fin = w1.hist[o]])

\* ------------------------------------------------------------ specification
Constructed ==
  /\ sessions = <<>>
  /\ activeProject = Null
  /\ heap = [o \in Slots |-> NewSession]
  /\ backend = [o \in Slots |-> NoQuery]
  /\ hist = [o \in Slots |-> NoHist]
  /\ lastOp = Op("init", "", NoObj, "")
  /\ reply = "none"
  /\ sent = <<>>
  /\ events = <<>>
  /\ released = <<>>
  /\ delivered = <<>>
  /\ started = <<>>
  /\ listed = <<>>
  /\ shown = <<>>
  /\ userNumber = Null

\* The operator has set WA_CLAUDE_ALLOWED_NUMBER as the README tells.
Init == Constructed /\ allowedNumber = Owner

\* The user's session commands over the given projects.
UserOps(projs) ==
  \/ \E p \in projs : \E fs \in FileSystems(p) : UserOpen(p, fs)
  \/ \E cmd \in {"", "/commit"} : UserRelay(cmd)
  \/ \E approved \in BOOLEAN, origin \in {NoObj} \cup Slots : UserApprove(approved, origin)
  \/ UserCancel

\* Sessions removed and recreated.
LifecycleOps(projs) ==
  \/ \E p \in projs, tap \in BOOLEAN : UserKill(p, tap)
  \/ \E p \in projs \cup {""}, fs \in {Projects, {}} : UserRestart(p, fs)

\* The backend's moves: the messages it streams, the tools it asks permission
\* for, and how many permission requests it leaves open at once.
BackendOps(msgs, tools, inputs, limit, maxText) ==
  \/ \E o \in Slots, message \in msgs : StreamMessage(o, message, maxText)
  \/ \E o \in Slots : StreamEnd(o)
  \/ \E o \in Slots, errName \in {"AbortError", "Error"} : StreamThrow(o, errName)
  \/ \E o \in Slots, toolName \in tools, input \in inputs :
       ToolRequest(o, toolName, input, limit, "ok")
  \/ \E o \in Slots, c \in CbIds : ToolSignalAbort(o, c)

TimerOps == \E o \in Slots : TimerFire(o)

\* The registry: every project, sessions killed and restarted while their
\* query runs; the backend streams messages the session does not interpret
\* and asks for one permission at a time.
Next ==
  \/ UserOps(Projects)
  \/ LifecycleOps(Projects)
  \/ BackendOps({m \in Messages : m.type = "user"}, {"Bash"}, {"ls"}, 1, MaxText)

Spec == Init /\ [][Next]_vars

\* One session, never removed, against everything the backend can do.
NextSession ==
  \/ UserOps({"a"})
  \/ BackendOps({m \in Messages : TextsOf(m) \subseteq {<<"a">>}}, ToolNames, Inputs, MaxCb,
                MaxText)
  \/ TimerOps

SpecSession == Init /\ [][NextSession]_vars

\* The same, with what Node's scheduling guarantees: an armed timer fires.
\* Nothing obliges the user to write or the backend to answer.
FairSession == SpecSession /\ WF_vars(TimerOps)

\* One session and the text of its queries: text blocks and results arriving,
\* the debounce timer, and every way a query ends.
StreamMessages ==
  {m \in Messages : m.type \in {"assistant", "result"} /\ m.session_id = 0
                     /\ (m.type = "assistant" => TextsOf(m) # {})}

NextStream ==
  \/ \E fs \in FileSystems("a") : UserOpen("a", fs)
  \/ UserRelay("")
  \/ UserCancel
  \/ UserFull
  \/ \E o \in Slots, message \in StreamMessages : StreamMessage(o, message, MaxStream)
  \/ \E o \in Slots : StreamEnd(o)
  \/ \E o \in Slots, errName \in {"AbortError", "Error"} : StreamThrow(o, errName)
  \/ TimerOps

SpecStream == Init /\ [][NextStream]_vars

\* One project, its session killed, restarted and reopened while the backend
\* issues it a conversation id and asks for permissions.
NextReopen ==
  \/ UserOps({"a"})
  \/ LifecycleOps({"a"})
  \/ BackendOps({m \in Messages : m.type = "system" /\ m.session_id = 1}, {"Bash"}, {"ls"}, 1,
                MaxText)

SpecReopen == Init /\ [][NextReopen]_vars

\* The rich notifications against an API that may refuse them: the approval
\* buttons of one session and the router's three lists.
NextDelivery ==
  \/ \E fs \in FileSystems("a") : UserOpen("a", fs)
  \/ UserRelay("")
  \/ \E approved \in BOOLEAN : UserApprove(approved, NoObj)
  \/ \E p \in Projects : UserKill(p, TRUE)
  \/ \E cmd \in {"/open", "/kill", "/restart"}, net \in Nets : UserMenu(cmd, net)
  \/ \E o \in Slots, net \in Nets : ToolRequest(o, "Bash", "ls", 1, net)
  \/ \E o \in Slots : StreamEnd(o)

SpecDelivery == Init /\ [][NextDelivery]_vars

\* The router against message bodies as typed: commands in either case, with
\* surrounding and repeated whitespace, commands it does not know, and
\* free-form text, sent to one project's session at every point of its life.
RouterTexts ==
  { <<"/commit">>,
    <<" ", "/Commit", " ", " ", "do", " ">>,
    <<"/commit", " ", "do", " ", "it">>,
    <<"/">>,
    <<"do">>,
    <<" ", "do", " ", "it">>,
    <<"/Cancel">>,
    <<" ", "/cancel", " ">>,
    <<"/kill", " ", "a">>,
    <<"/kill", " ", "do", " ", "it">>,
    <<"/yes">> }

NextRouter ==
  \/ \E fs \in FileSystems("a") : UserOpen("a", fs)
  \/ \E text \in RouterTexts : UserText(text)
  \/ \E o \in Slots : ToolRequest(o, "Bash", "ls", 1, "ok")
  \/ \E o \in Slots : StreamEnd(o)

SpecRouter == Init /\ [][NextRouter]_vars

\* The project picker: /open with and without a filter against project
\* roots whose titles share prefixes, differ in case and outnumber the rows of
\* a list, while sessions are opened from the list and killed.
ProjectRoots ==
  { {},
    {"a", "B"},
    {"a", "ab", "B"},
    {"ab", "B", "c"},
    {"a", "ab", "B", "c", "d", "e", "f", "g", "h", "i", "j", "k"} }

Filters == {"", "a", "A", "ab", "AB", "b", "c", "x"}

NextListing ==
  \/ \E p \in {"ab", "B", "k"}, fs \in ProjectRoots : UserOpen(p, fs)
  \/ \E p \in {"ab", "B", "k"} : UserKill(p, TRUE)
  \/ \E filter \in Filters, fs \in ProjectRoots : UserOpenFilter(filter, fs, "ok")
  \/ UserList

SpecListing == Init /\ [][NextListing]_vars

\* The webhook: the environment sets the allowed number or leaves it out, and
\* anyone who knows the endpoint posts messages to it.
InitWebhook == Constructed /\ allowedNumber \in {"", Owner}

Posts ==
  { <<<<>>, Button("open", "a")>>,
    <<<<>>, Button("kill", "a")>>,
    <<<<"do">>, NoButton>>,
    <<<<"/cancel">>, NoButton>>,
    <<<<"/yes">>, NoButton>>,
    <<<<>>, NoButton>> }

NextWebhook ==
  \/ \E from \in {Owner, Stranger}, m \in Posts : UserPost(from, m[1], m[2])
  \/ BackendOps({m \in Messages : m.type = "user"}, {"Bash"}, {"ls"}, 1, MaxText)

SpecWebhook == InitWebhook /\ [][NextWebhook]_vars

\* One project's session killed, restarted and reopened while its query
\* streams text, asks for permissions and ends in every way.
NextKilled ==
  \/ UserOpen("a", Projects)
  \/ UserRelay("")
  \/ \E tap \in BOOLEAN : UserKill("a", tap)
  \/ UserRestart("a", Projects)
  \/ \E o \in Slots,
        message \in {m \in StreamMessages : TextsOf(m) \subseteq {<<"a">>}} :
        StreamMessage(o, message, 1)
  \/ \E o \in Slots : StreamEnd(o)
  \/ \E o \in Slots, errName \in {"AbortError", "Error"} : StreamThrow(o, errName)
  \/ \E o \in Slots : ToolRequest(o, "Bash", "ls", MaxCb, "ok")
  \/ \E approved \in BOOLEAN : UserApprove(approved, NoObj)
  \/ TimerOps

SpecKilled == Init /\ [][NextKilled]_vars



\* ------------------------------------------------------------ properties
\* The text-chunk events of the last step, in order.
ChunksEmitted == SelectSeq(events, LAMBDA e : e.name = "text-chunk")

\* C1: activeProject is null or a key of the sessions map, after any sequence
\* of open, relay, approve/deny, cancel, kill and restart, a restart whose
\* re-open fails included.
ActiveProjectIsLive ==
  activeProject = Null \/ MapHas(sessions, activeProject)

\* C1 witness: restarting the one session left failed to re-open it (its
\* directory is gone), and the registry is empty with no active project.
RestartReopenFailed ==
  /\ lastOp.op = "restart"
  /\ reply = "NotFound"
  /\ lastOp.obj # NoObj
  /\ sessions = <<>>
  /\ activeProject = Null

\* C2: no session object ever has two send() calls in flight, and isActive
\* is true exactly while one is.
AtMostOneQueryPerSession ==
  \A o \in Slots :
    /\ backend[o].running <= 1
    /\ heap[o].isActive <=> backend[o].running = 1

\* C2 witness: a relay was just accepted by a project's new session while the
\* query of the session killed before it is still running.
RelayBesideRunningRemovedSession ==
  /\ lastOp.op = "relay"
  /\ reply = "none"
  /\ \E o1, o2 \in Slots :
       /\ o1 # o2
       /\ o2 = lastOp.obj
       /\ backend[o1].running = 1 /\ ~Registered(Cur, o1)
       /\ backend[o2].running = 1 /\ Registered(Cur, o2)

\* C3 (as claimed): the pending approval slot is non-null only while the
\* session is RUNNING.
PendingOnlyWhileRunning ==
  \A o \in Slots : heap[o].pendingApproval # 0 => heap[o].isActive

\* C4: a relay to an IDLE active session returns nothing, sends exactly the
\* acknowledgement and starts one query; a relay to a RUNNING one returns
\* SessionBusy, sends nothing and starts nothing. IDLE is all the first case
\* asks for, so it covers the relay after a query has finished.
RelayContract ==
  [][ (lastOp'.op = "relay" /\ activeProject # Null /\ MapHas(sessions, activeProject)) =>
        LET o == ActiveObj
        IN IF heap[o].isActive
           THEN /\ reply' = "SessionBusy"
                /\ sent' = <<>>
                /\ backend'[o].running = backend[o].running
                /\ heap' = heap
           ELSE /\ reply' = "none"
                /\ Len(sent') = 1 /\ sent'[1].kind = "ack"
                /\ backend'[o].running = backend[o].running + 1
                /\ backend'[o].stream = "open"
                /\ heap'[o].isActive
    ]_vars

\* C4 witness: a relay was accepted on a session that holds the conversation
\* id an earlier query of it received, so after that query reached IDLE.
RelayAcceptedAfterEarlierQuery ==
  /\ lastOp.op = "relay"
  /\ reply = "none"
  /\ lastOp.obj # NoObj
  /\ heap[lastOp.obj].isActive
  /\ heap[lastOp.obj].sessionId # 0

\* C5 (as claimed): a query that interrupt() was called on ends with exactly
\* one 'interrupted' event, however the stream reacted to the abort.
InterruptedQueryEmitsInterrupted ==
  (lastOp.op = "finish" /\ lastOp.fin.intr) => lastOp.fin.nIntr = 1

\* C6 (as claimed): interrupt() with an approval outstanding clears the slot
\* and releases the callback in that step, and the query then ends IDLE with
\* an 'interrupted' notification to the user and no 'error' notification.
InterruptWithPendingNotifiesInterrupted ==
  /\ (lastOp.op = "cancel" /\ reply = "Cancelling") =>
       /\ heap[lastOp.obj].pendingApproval = 0
       /\ \A i \in 1..Len(released) :
            released[i].how = "reject" /\ released[i].cb \notin backend[lastOp.obj].waiting
  /\ (lastOp.op = "finish" /\ lastOp.fin.intrPend) =>
       /\ ~heap[lastOp.obj].isActive
       /\ lastOp.fin.nErr = 0
       /\ Cardinality({i \in 1..Len(sent) : sent[i].kind = "interrupted"}) = 1
       /\ \A i \in 1..Len(sent) : sent[i].kind # "error"

\* C7 (as claimed): an approve/deny tap on the buttons session lastOp.obj's
\* request showed releases that session's callback and no other session's.
ApprovalReachesRequester ==
  (lastOp.op = "approve" /\ lastOp.obj # NoObj) =>
     /\ heap[lastOp.obj].pendingApproval = 0
     /\ Len(released) = 1
     /\ released[1].obj = lastOp.obj

\* C8 (as claimed): a second permission request does not overwrite the first:
\* every suspended callback is still the one the session can resolve.
NoSuspendedCallerDropped ==
  \A o \in Slots : backend[o].waiting \subseteq {heap[o].pendingApproval}

\* C9 (as claimed): an unanswered PendingApproval is eventually auto-denied
\* and cleared: no session stays RUNNING forever with its permission callback
\* suspended on the approval slot.
ApprovalEventuallyCleared ==
  \A o \in Slots :
    (heap[o].isActive /\ heap[o].pendingApproval \in backend[o].waiting)
      ~> ~(heap[o].isActive /\ heap[o].pendingApproval \in backend[o].waiting)

\* C10 (as claimed): a query whose stream never terminates is eventually
\* aborted.
QueryEventuallyAborted ==
  \A o \in Slots :
    heap[o].isActive ~> (~heap[o].isActive \/ heap[o].abortController = "aborted")

\* C11 (as claimed): a query's terminal exit emits whatever text is buffered
\* as a final text-chunk, and an IDLE session's stream buffer is empty.
TerminalExitEmptiesBuffer ==
  /\ (lastOp.op = "finish" /\ lastOp.fin.window # <<>>) => ChunksEmitted # <<>>
  /\ \A o \in Slots : ~heap[o].isActive => heap[o].textBuffer = <<>>

\* C11 (amended): a query's terminal exit emits the buffered text, trimmed, as
\* a final text-chunk unless it is only whitespace; an IDLE session's stream
\* buffer holds at most whitespace and its timer is not armed.
TerminalExitFlushesText ==
  /\ (lastOp.op = "finish" /\ Trim(lastOp.fin.window) # <<>>) =>
       /\ Len(ChunksEmitted) = 1
       /\ ChunksEmitted[1].text = Trim(lastOp.fin.window)
       /\ ChunksEmitted[1].obj = lastOp.obj
  /\ \A o \in Slots :
       ~heap[o].isActive => Trim(heap[o].textBuffer) = <<>> /\ ~heap[o].bufferTimer

\* C11 witness: a query ended by a stream error with text still buffered, and
\* that text went out in the same step.
ErrorExitFlushedText ==
  /\ lastOp.op = "finish"
  /\ lastOp.arg = "Error"
  /\ Trim(lastOp.fin.window) # <<>>
  /\ ChunksEmitted # <<>>

\* C12 (as claimed): the arrivals of one debounce window go out as exactly one
\* text-chunk whose text is their concatenation in arrival order, and no
\* chunk goes out while they arrive.
WindowFlushedAsConcatenation ==
  /\ (lastOp.op \in {"timer", "finish"} /\ lastOp.fin.window # <<>>) =>
       /\ Len(ChunksEmitted) = 1
       /\ ChunksEmitted[1].text = lastOp.fin.window
  /\ (lastOp.op = "message" /\ lastOp.arg = "assistant") => ChunksEmitted = <<>>

\* C12 (amended): the arrivals of one debounce window go out as exactly one
\* text-chunk whose text is their concatenation in arrival order with the
\* whitespace at its two ends trimmed, or as no chunk when the concatenation
\* is only whitespace; no chunk goes out while they arrive.
WindowFlushedAsTrimmedConcatenation ==
  /\ lastOp.op \in {"timer", "finish"} =>
       IF Trim(lastOp.fin.window) # <<>>
       THEN /\ Len(ChunksEmitted) = 1
            /\ ChunksEmitted[1].text = Trim(lastOp.fin.window)
       ELSE ChunksEmitted = <<>>
  /\ (lastOp.op = "message" /\ lastOp.arg = "assistant") => ChunksEmitted = <<>>

\* C12 witness: the timer fired on a window of three arrivals, "a", " " and
\* "b" among them, and one chunk carried all three.
TimerFlushedThreeArrivals ==
  /\ lastOp.op = "timer"
  /\ Len(lastOp.fin.window) = 3
  /\ Len(ChunksEmitted) = 1
  /\ Len(ChunksEmitted[1].text) = 3
  /\ ChunksEmitted[1].text[2] = " "
  /\ ChunksEmitted[1].text[1] # ChunksEmitted[1].text[3]

\* text is the chunks in order, each trimmed, with only whitespace before,
\* between and after them.
RECURSIVE ChunksCover(_, _)
ChunksCover(text, chunks) ==
  IF chunks = <<>>
  THEN Trim(text) = <<>>
  ELSE LET t == TrimLeft(text)
           c == Trim(Head(chunks))
       IN /\ Len(c) <= Len(t)
          /\ SubSeq(t, 1, Len(c)) = c
          /\ ChunksCover(SubSeq(t, Len(c) + 1, Len(t)), Tail(chunks))

\* C13: when a query ends, the texts of its text-chunk events, in order, are
\* the text that arrived during it (text blocks, and the result's text when
\* it stands in for them), in order, up to the whitespace trimmed at the
\* chunks' ends: nothing emitted twice, dropped or reordered.
ChunksAreArrivalsInOrder ==
  lastOp.op = "finish" => ChunksCover(lastOp.fin.arrived, lastOp.fin.chunks)

\* C13 witness: a query ended having emitted two chunks, one on the timer and
\* one at the end, for arrivals "a" and "b" in either order.
TwoChunksThenEnd ==
  /\ lastOp.op = "finish"
  /\ Len(lastOp.fin.chunks) = 2
  /\ Len(ChunksEmitted) = 1
  /\ Trim(lastOp.fin.chunks[1]) # Trim(lastOp.fin.chunks[2])

\* C14: when a query's stream raises an error other than the abort's, with no
\* interrupt requested, the session emits 'error' in that step, is IDLE and
\* still registered after it, and a relay that comes next to its project is
\* accepted and starts a query on it.
StreamErrorLeavesSessionUsable ==
  [][ /\ (lastOp'.op = "finish" /\ lastOp'.arg = "Error" /\ ~lastOp'.fin.intr) =>
           /\ \E i \in 1..Len(events') :
                events'[i].name = "error" /\ events'[i].obj = lastOp'.obj
           /\ \A i \in 1..Len(events') : events'[i].name # "interrupted"
           /\ ~heap'[lastOp'.obj].isActive
           /\ \E i \in 1..Len(sessions') : sessions'[i].session = lastOp'.obj
      /\ (/\ lastOp.op = "finish" /\ lastOp.arg = "Error" /\ ~lastOp.fin.intr
          /\ lastOp'.op = "relay" /\ activeProject = lastOp.proj) =>
           /\ reply' = "none"
           /\ heap'[lastOp.obj].isActive
           /\ backend'[lastOp.obj].running = 1
           /\ backend'[lastOp.obj].stream = "open"
    ]_vars

\* C14 witness: a query nobody interrupted ended by a stream error, and its
\* session is registered, IDLE and the active one, so the next relay is its.
StreamErrorOnActiveSession ==
  /\ lastOp.op = "finish"
  /\ lastOp.arg = "Error"
  /\ ~lastOp.fin.intr
  /\ lastOp.fin.nErr = 1
  /\ activeProject = lastOp.proj
  /\ ActiveObj = lastOp.obj
  /\ ~heap[lastOp.obj].isActive

\* C15 (as claimed): a query that failed (its stream raised with no interrupt
\* requested, or the backend reported a non-success result) has sent the user
\* exactly one failure notification when it ends.
FailedQueryNotifiesOnce ==
  (/\ lastOp.op = "finish"
   /\ lastOp.fin.nErr > 0 \/ (lastOp.arg = "Error" /\ ~lastOp.fin.intr)) =>
     lastOp.fin.nErr = 1

\* C16 (as claimed): when the API refuses a rich notification (the approval
\* buttons, or the project, kill or restart list), the user gets its content
\* as plain text in its place: as a notification, or as the handler's reply.
RichFailureFallsBackToText ==
  \A i \in 1..Len(sent) :
    (sent[i].kind \in Rich /\ \A j \in 1..Len(delivered) : delivered[j] # sent[i]) =>
       \/ \E j \in 1..Len(delivered) : delivered[j].kind = "buttons-as-text"
       \/ reply \in {"ProjectListAsText", "KillListAsText", "RestartListAsText"}

\* C17 (as claimed): a send passes as resume token the conversation id the
\* backend last issued on that session object, and none if it issued none.
ResumeIsLastIssuedId ==
  (lastOp.op = "relay" /\ reply = "none") =>
     backend[lastOp.obj].resume = backend[lastOp.obj].issued

\* C18: open(p), kill(p), open(p) (and restart, which is the last two) leaves
\* p registered with a session as the constructor makes it: no resumption
\* token, IDLE, no pending approval, no query of its own, whatever the
\* destroyed session had.
ReopenedSessionIsFresh ==
  [][ (\/ /\ lastOp'.op = "restart"
          /\ reply' \notin {"NoProjectSpecified", "NoSessionFound", "NotFound"}
       \/ /\ lastOp.op = "kill" /\ reply = "Killed"
          /\ lastOp'.op = "open" /\ lastOp'.proj = lastOp.proj
          /\ reply' # "NotFound") =>
        LET o == MapGet(sessions', activeProject')
        IN /\ o # NoObj
           /\ lastOp'.op = "open" => activeProject' = lastOp'.proj
           /\ heap'[o] = [NewSession EXCEPT !.listeners = TRUE]
           /\ backend'[o] = NoQuery
    ]_vars

\* C18 witness: a restart opened a new session while the one it destroyed is
\* still running its query, holding the token the backend gave it and
\* interrupted with an approval outstanding.
RestartedBesideRunningOldSession ==
  /\ lastOp.op = "restart"
  /\ reply = "Opened"
  /\ heap[ActiveObj] = [NewSession EXCEPT !.listeners = TRUE]
  /\ \E o \in Slots :
       /\ ~Registered(Cur, o)
       /\ heap[o].isActive
       /\ heap[o].sessionId # 0
       /\ hist[o].intrPend

RelayWithoutActiveChangesNothing ==
  [][ (lastOp'.op = "relay" /\ activeProject = Null) =>
        /\ reply' = "NoActiveSession"
        /\ activeProject' = Null
        /\ sessions' = sessions
        /\ heap' = heap
        /\ backend' = backend
        /\ sent' = <<>>
        /\ events' = <<>>
    ]_vars

\* C20 witness: relay was refused for want of an active project while a
\* session of some project is registered.
RelayRefusedBesideSession ==
  /\ lastOp.op = "relay"
  /\ reply = "NoActiveSession"
  /\ activeProject = Null
  /\ sessions # <<>>
  /\ sent = <<>>

\* C21: kill(p) of the active project sets activeProject to null; kill(p) of
\* a project that is not active, or that has no session, leaves activeProject
\* as it was. Either way the sessions of the other projects stay in the Map,
\* in their order, with their objects and queries untouched, and a kill that
\* finds no session changes nothing at all.
KillTouchesOnlyItsProject ==
  [][ lastOp'.op = "kill" =>
        LET p == lastOp'.proj
        IN /\ activeProject' = IF activeProject = p THEN Null ELSE activeProject
           /\ sessions' = SelectSeq(sessions, LAMBDA e : e.name # p)
           /\ \A i \in 1..Len(sessions) :
                sessions[i].name # p =>
                  /\ heap'[sessions[i].session] = heap[sessions[i].session]
                  /\ backend'[sessions[i].session] = backend[sessions[i].session]
           /\ ~MapHas(sessions, p) =>
                /\ reply' = "NoSessionFound"
                /\ heap' = heap
                /\ backend' = backend
                /\ sent' = <<>>
    ]_vars

\* C21 witness: a project that is not the active one was killed while its
\* query ran; the active project's session, RUNNING too, is still active.
KilledInactiveBesideRunningActive ==
  /\ lastOp.op = "kill"
  /\ reply = "Killed"
  /\ activeProject \in Projects \ {lastOp.proj}
  /\ heap[ActiveObj].isActive
  /\ \E o \in Slots : ~Registered(Cur, o) /\ heap[o].isActive /\ hist[o].intr

\* C22: open(p) for an identifier whose working directory does not exist
\* returns the NotFound message as its value and leaves the sessions map and
\* activeProject as they were; no session object or query is touched and
\* nothing is sent.
OpenMissingChangesNothing ==
  [][ (lastOp'.op = "open" /\ lastOp'.arg = "missing") =>
        /\ reply' = "NotFound"
        /\ sessions' = sessions
        /\ activeProject' = activeProject
        /\ heap' = heap
        /\ backend' = backend
        /\ sent' = <<>>
    ]_vars

\* C22 witness: open was refused for a project whose directory is missing
\* while another project is active with its query running.
OpenRefusedBesideRunningActive ==
  /\ lastOp.op = "open"
  /\ lastOp.arg = "missing"
  /\ reply = "NotFound"
  /\ activeProject \in Projects \ {lastOp.proj}
  /\ ~MapHas(sessions, lastOp.proj)
  /\ heap[ActiveObj].isActive

\* C23: resolvePendingApproval(b), reached through approve/deny on the active
\* session, returns true exactly when the approval slot was set at the call;
\* it then releases the suspended callback with b and clears the slot, and a
\* second call right after it returns false and releases nothing.
ResolveReleasesPendingCallback ==
  [][ (lastOp'.op = "approve" /\ ActiveObj # NoObj) =>
        LET o == ActiveObj
            c == heap[o].pendingApproval
            resolved == reply' \in {"Approved", "Denied"}
        IN /\ resolved <=> c # 0
           /\ resolved =>
                /\ Len(released') = 1
                /\ released'[1].obj = o
                /\ released'[1].cb = c
                /\ released'[1].how = IF reply' = "Approved" THEN "allow" ELSE "deny"
                /\ heap'[o].pendingApproval = 0
           /\ ~resolved => (reply' = "NoPendingApproval" /\ released' = <<>>)
           /\ (lastOp.op = "approve" /\ reply \in {"Approved", "Denied"}) => ~resolved
    ]_vars

\* The approval-needed events of a step.
ApprovalsAsked(evs) == SelectSeq(evs, LAMBDA e : e.name = "approval-needed")

\* C24: a permission request for an allow-listed tool returns 'allow' with
\* the input it was given in the same step, leaves the approval slot and the
\* suspended callbacks alone and emits no approval-needed event; a request
\* for any other tool returns nothing in that step, stores a new suspended
\* callback in the slot and emits exactly one approval-needed event; and a
\* suspended callback stops waiting only in a step that resolves or rejects
\* it.
AllowListedToolsSkipApproval ==
  [][ /\ lastOp'.op = "tool" =>
           LET o == lastOp'.obj
           IN IF lastOp'.arg \in allowedTools
              THEN /\ Len(released') = 1
                   /\ released'[1].obj = o
                   /\ released'[1].how = "allow"
                   /\ released'[1].updatedInput = lastOp'.input
                   /\ heap'[o].pendingApproval = heap[o].pendingApproval
                   /\ backend'[o].waiting = backend[o].waiting
                   /\ ApprovalsAsked(events') = <<>>
                   /\ sent' = <<>>
              ELSE /\ released' = <<>>
                   /\ heap'[o].pendingApproval \in CbIds \ backend[o].waiting
                   /\ backend'[o].waiting = backend[o].waiting \cup {heap'[o].pendingApproval}
                   /\ backend'[o].input[heap'[o].pendingApproval] = lastOp'.input
                   /\ Len(ApprovalsAsked(events')) = 1
      /\ \A o \in Slots : \A c \in backend[o].waiting \ backend'[o].waiting :
           \E i \in 1..Len(released') :
             /\ released'[i].obj = o
             /\ released'[i].cb = c
             /\ released'[i].how \in {"allow", "deny", "reject"}
    ]_vars

\* C24 witness: an allow-listed tool was let through with its input while a
\* Bash request of the same session is still waiting for the user.
ReadAllowedBesidePendingBash ==
  /\ lastOp.op = "tool"
  /\ lastOp.arg \in allowedTools
  /\ lastOp.input = "rm"
  /\ Len(released) = 1
  /\ released[1].how = "allow"
  /\ released[1].updatedInput = "rm"
  /\ heap[lastOp.obj].pendingApproval \in backend[lastOp.obj].waiting
  /\ backend[lastOp.obj].input[heap[lastOp.obj].pendingApproval] = "ls"

\* C25: a callback released by an approval returns 'allow' with the input it
\* was called with; one released by a denial returns a denial whose interrupt
\* flag is false. Neither answer touches the query: the session's activity,
\* its abort controller and its stream are as before, and no interrupted,
\* error or done event is emitted.
AnswerReturnsInputAndKeepsQuery ==
  [][ lastOp'.op = "approve" =>
        /\ \A i \in 1..Len(released') :
             LET r == released'[i]
             IN /\ r.how = IF reply' = "Approved" THEN "allow" ELSE "deny"
                /\ r.cb \in backend[r.obj].waiting
                /\ r.how = "allow" =>
                     (r.updatedInput \in Inputs /\ r.updatedInput = backend[r.obj].input[r.cb])
                /\ r.how = "deny" => r.interrupt = "false"
        /\ \A o \in Slots :
             /\ heap'[o].isActive = heap[o].isActive
             /\ heap'[o].abortController = heap[o].abortController
             /\ backend'[o].stream = backend[o].stream
             /\ backend'[o].running = backend[o].running
        /\ events' = <<>>
    ]_vars

\* C25 witness: a denial released the callback that asked about input "rm";
\* the session is still RUNNING with its stream open, and an earlier request
\* about "ls" is still suspended.
DeniedWhileQueryRuns ==
  /\ lastOp.op = "approve"
  /\ reply = "Denied"
  /\ Len(released) = 1
  /\ released[1].how = "deny"
  /\ released[1].interrupt = "false"
  /\ heap[released[1].obj].isActive
  /\ backend[released[1].obj].stream = "open"
  /\ \E c \in backend[released[1].obj].waiting : backend[released[1].obj].input[c] = "ls"

\* The command words handleCommand has a case for.
RouterCommands ==
  {"/open", "/kill", "/restart", "/list", "/status", "/full", "/yes", "/approve", "/no",
   "/deny", "/cancel", "/help"}

\* A message body that starts with the sigil and names no router command.
IsUnknownCommand(text) ==
  /\ Trim(text) # <<>>
  /\ Head(Chars(Trim(text)[1])) = "/"
  /\ ToLowerCase(Trim(text)[1]) \notin RouterCommands

\* C26: a slash command the router does not know is relayed: with no active
\* project the reply is NoActiveSession, with the active session RUNNING it is
\* SessionBusy, and in both cases nothing changes; otherwise a query starts on
\* the active session whose prompt is the whole trimmed body, sigil, case and
\* inner whitespace as typed, and the acknowledgement is sent.
UnknownCommandIsRelayedWhole ==
  [][ (lastOp'.op = "text" /\ IsUnknownCommand(lastOp'.text)) =>
        IF activeProject = Null \/ heap[ActiveObj].isActive
        THEN /\ reply' = IF activeProject = Null THEN "NoActiveSession" ELSE "SessionBusy"
             /\ started' = <<>>
             /\ sent' = <<>>
             /\ heap' = heap
             /\ backend' = backend
             /\ sessions' = sessions
             /\ activeProject' = activeProject
        ELSE /\ reply' = "none"
             /\ started' = <<[obj |-> ActiveObj, prompt |-> Trim(lastOp'.text)]>>
             /\ heap'[ActiveObj].isActive
             /\ Len(sent') = 1
             /\ sent'[1].kind = "ack"
    ]_vars

\* C26 witness: "/Commit  do", typed with spaces around it, started a query
\* whose prompt keeps the sigil, the capital and both inner spaces.
CommitRelayedAsTyped ==
  /\ lastOp.op = "text"
  /\ lastOp.text = <<" ", "/Commit", " ", " ", "do", " ">>
  /\ reply = "none"
  /\ Len(started) = 1
  /\ started[1].prompt = <<"/Commit", " ", " ", "do">>
  /\ heap[started[1].obj].isActive

\* The selection lists a step sent.
ListsSent(notes) == SelectSeq(notes, LAMBDA n : n.kind = "list")

ExactNameOpensDirectly ==
  [][ (lastOp'.op = "filter" /\ lastOp'.arg # "") =>
        \A p \in lastOp'.fs :
          LowerChars(p) = LowerChars(lastOp'.arg) =>
            /\ activeProject' = p
            /\ MapHas(sessions', p)
            /\ ListsSent(sent') = <<>>
    ]_vars

\* C29: the rows of a project selection list are distinct matched projects,
\* as many as there are up to 10; every row with a session comes before
\* every row without, and within each group the rows are in alphabetical
\* order of their lower-cased ids.
ListingOrderedAndCapped ==
  [][ (lastOp'.op = "filter" /\ ListsSent(sent') # <<>>) =>
        LET rows == ListsSent(sent')[1].text
            m == IF lastOp'.arg = "" THEN lastOp'.fs
                 ELSE {p \in lastOp'.fs : HasPrefix(LowerChars(p), LowerChars(lastOp'.arg))}
            has(p) == MapHas(sessions, p)
        IN /\ Len(rows) <= 10
           /\ Len(rows) = IF Cardinality(m) < 10 THEN Cardinality(m) ELSE 10
           /\ \A i \in 1..Len(rows) : rows[i] \in m
           /\ \A i, j \in 1..Len(rows) :
                i < j =>
                  /\ rows[i] # rows[j]
                  /\ has(rows[j]) => has(rows[i])
                  /\ has(rows[i]) = has(rows[j]) =>
                       ComesBefore(LowerChars(rows[i]), LowerChars(rows[j]))
    ]_vars

\* C29 witness: a bare /open against twelve projects, two of them (B and k)
\* with a session, offered ten rows: B and k first, then a, ab, c and on.
TwelveProjectsTenRows ==
  /\ lastOp.op = "filter"
  /\ lastOp.arg = ""
  /\ Cardinality(lastOp.fs) = 12
  /\ MapKeys(sessions) = {"B", "k"}
  /\ ListsSent(sent) # <<>>
  /\ Len(ListsSent(sent)[1].text) = 10
  /\ SubSeq(ListsSent(sent)[1].text, 1, 5) = <<"B", "k", "a", "ab", "c">>

\* The names of the Map's entries, in its iteration order.
Names(m) == [i \in 1..Len(m) |-> m[i].name]

\* C30: list() reports one line per session, in the order the sessions were
\* inserted, with the active marker on the line of activeProject and on no
\* other (on none when activeProject is null); and an open that switches to
\* a project that has a session leaves that order as it was, while one that
\* creates a session appends it.
ListInInsertionOrder ==
  [][ /\ lastOp'.op = "list" =>
           /\ Len(listed') = Len(sessions)
           /\ \A i \in 1..Len(listed') :
                /\ listed'[i].name = sessions[i].name
                /\ listed'[i].marker = (listed'[i].name = activeProject)
           /\ \A i, j \in 1..Len(listed') : i # j => listed'[i].name # listed'[j].name
           /\ Cardinality({i \in 1..Len(listed') : listed'[i].marker})
                = IF activeProject = Null THEN 0 ELSE 1
           /\ sessions' = sessions
           /\ activeProject' = activeProject
      /\ (lastOp'.op = "open" /\ MapHas(sessions, lastOp'.proj)) =>
           Names(sessions') = Names(sessions)
      /\ (lastOp'.op = "open" /\ ~MapHas(sessions, lastOp'.proj)) =>
           Names(sessions') \in {Names(sessions), Append(Names(sessions), lastOp'.proj)}
    ]_vars

\* C30 witness: two sessions listed with the marker on the second line: k was
\* opened first, B after it, and the list follows that order, not the
\* alphabet.
ListedTwoSecondActive ==
  /\ lastOp.op = "list"
  /\ Len(listed) = 2
  /\ listed[1].name = "k"
  /\ listed[2].name = "B"
  /\ ~listed[1].marker
  /\ listed[2].marker

\* C31: interrupt() on a session that is IDLE changes no field of it, settles
\* no promise and emits nothing; and cancel on an IDLE active session replies
\* NothingToCancel and changes nothing.
IdleInterruptIsNoOp ==
  [][ /\ \A o \in Slots :
           (Registered(Cur, o) /\ ~heap[o].isActive) =>
             LET w == Interrupt(Cur, o)
             IN /\ w.heap = heap
                /\ w.backend = backend
                /\ w.released = <<>>
                /\ w.events = <<>>
      /\ (lastOp'.op = "cancel" /\ ActiveObj # NoObj /\ ~heap[ActiveObj].isActive) =>
           /\ reply' = "NothingToCancel"
           /\ heap' = heap
           /\ backend' = backend
           /\ sessions' = sessions
           /\ activeProject' = activeProject
    ]_vars

\* C32: a message from a sender other than the allowed one is never routed: it
\* gets no reply, starts no query, releases no callback, and leaves the
\* registry, every session and the recipient of replies and notifications as
\* they were.
OnlyAllowedSenderIsRouted ==
  [][ (lastOp'.op = "post" /\ lastOp'.from # Owner) =>
        /\ reply' = "none" /\ started' = <<>> /\ released' = <<>> /\ sent' = <<>>
        /\ sessions' = sessions /\ activeProject' = activeProject
        /\ heap' = heap /\ backend' = backend
        /\ userNumber' = userNumber
    ]_vars

\* The text getFullResponse() has to give back for object o: all that arrived
\* in its most recent send, as it arrived.
Produced(o) == hist[o].produced

\* C33 as written: /full on the active session returns exactly what arrived in
\* its most recent send, and the sentinel when nothing arrived.
FullOutputIsExactlyWhatArrived ==
  [][ (lastOp'.op = "full" /\ ActiveObj # NoObj) =>
        IF Produced(ActiveObj) = <<>>
        THEN reply' = "NoRecentOutput"
        ELSE reply' = "Full" /\ shown' = Produced(ActiveObj)
    ]_vars

\* C33: /full on the active session returns what arrived in its most recent
\* send, in arrival order, with the white space at both ends removed, whether
\* or not that query has finished; it returns the sentinel when nothing but
\* white space arrived; and every send starts with the accumulator empty.
FullOutputIsTrimmedArrivals ==
  [][ /\ (lastOp'.op = "full" /\ ActiveObj # NoObj) =>
            IF Trim(Produced(ActiveObj)) = <<>>
            THEN reply' = "NoRecentOutput" /\ shown' = <<>>
            ELSE reply' = "Full" /\ shown' = Trim(Produced(ActiveObj))
      /\ \A i \in 1..Len(started') :
            GetFullResponse(Cur', started'[i].obj).ret = "NoRecentOutput"
    ]_vars

\* /full has answered with two arrivals of a query that is still running.
FullShownWhileRunning ==
  /\ lastOp.op = "full" /\ reply = "Full" /\ Len(shown) = 2
  /\ ActiveObj # NoObj /\ heap[ActiveObj].isActive

\* C34: in every state, restart(p) and restart() on a target that has a
\* session and whose directory exists leave the target registered and active
\* with a session that is IDLE and has no resumption token, the session of
\* before out of the registry and without listeners; on a target that has no
\* session, or with no target at all, restart answers with its message and
\* changes nothing.
RestartReplacesTheSession ==
  \A p \in Projects \cup {""}, fs \in SUBSET Projects :
    LET target == RestartTarget(Cur, p)
        w == Restart(Cur, p, fs)
    IN IF target = Null \/ ~MapHas(sessions, target)
       THEN /\ w.ret = IF target = Null THEN "NoProjectSpecified" ELSE "NoSessionFound"
            /\ w.sessions = sessions /\ w.activeProject = activeProject
            /\ w.heap = heap /\ w.backend = backend
            /\ w.released = <<>> /\ w.sent = <<>> /\ w.events = <<>>
       ELSE (target \in fs /\ CanRestart(Cur, p, fs)) =>
              LET old == MapGet(sessions, target)
                  new == MapGet(w.sessions, target)
              IN /\ w.ret = "Opened"
                 /\ new # NoObj
                 /\ w.activeProject = target
                 /\ ~w.heap[new].isActive
                 /\ w.heap[new].sessionId = 0
                 /\ w.heap[new].listeners
                 /\ w.backend[new] = NoQuery
                 /\ (heap[old].isActive \/ backend[old].running > 0) =>
                      new # old /\ ~w.heap[old].listeners /\ ~Registered(w, old)
                 /\ \A q \in Projects \ {target} :
                      MapGet(w.sessions, q) = MapGet(sessions, q)

\* restart_ (no id) has replaced the active session, which had a conversation
\* id and is still running its query.
RestartedActiveWithToken ==
  /\ lastOp.op = "restart" /\ lastOp.proj = ""
  /\ reply = "Opened"
  /\ ActiveObj # NoObj /\ heap[ActiveObj].sessionId = 0 /\ ~heap[ActiveObj].isActive
  /\ \E o \in Slots \ {ActiveObj} :
       ~Registered(Cur, o) /\ heap[o].isActive /\ heap[o].sessionId # 0

\* C35: no text-chunk of a query is emitted after that query's 'done': not in
\* a later step, and not later in the step that emits 'done'.
NoChunkAfterDone ==
  [][ \A i \in 1..Len(events') :
        events'[i].name = "text-chunk" =>
          /\ ~hist[events'[i].obj].done
          /\ \A j \in 1..(i - 1) :
                ~(events'[j].name = "done" /\ events'[j].obj = events'[i].obj)
    ]_vars

\* C36: when the stream of a query raises after interrupt() was called during
\* that query, whatever the error is, the session emits 'interrupted' and no
\* 'error' for it.
RaiseAfterInterruptIsInterrupted ==
  [][ \A o \in Slots :
        (/\ lastOp'.op = "finish" /\ lastOp'.obj = o
         /\ lastOp'.arg \in {"AbortError", "Error"}
         /\ hist[o].intr) =>
          /\ \E i \in 1..Len(events') :
                events'[i].name = "interrupted" /\ events'[i].obj = o
          /\ \A i \in 1..Len(events') :
                ~(events'[i].name = "error" /\ events'[i].obj = o)
    ]_vars

\* The stream of an interrupted query has raised its own error, not the abort
\* error, and the session has reported the interruption.
OwnErrorAfterInterrupt ==
  /\ lastOp.op = "finish" /\ lastOp.arg = "Error"
  /\ lastOp.fin.intr
  /\ lastOp.fin.nIntr = 1 /\ lastOp.fin.nErr = 0

\* C37: a session that is IDLE has no debounce timer armed, so every query
\* starts without a flush pending from the query before.
IdleSessionHasNoTimer ==
  \A o \in Slots : ~heap[o].isActive => ~heap[o].bufferTimer

\* A query has ended on the stream's error with text still buffered and its
\* timer armed: the text was flushed at the end and the session is IDLE.
EndedOnErrorWithTimerArmed ==
  /\ lastOp.op = "finish" /\ lastOp.arg = "Error"
  /\ \E i \in 1..Len(events) :
       events[i].name = "text-chunk" /\ events[i].obj = lastOp.obj
  /\ ~heap[lastOp.obj].isActive

\* C38: a session object has its listeners exactly while the registry holds
\* it (attached by the open that creates it, detached by kill), and no
\* notification goes out for an event of an object that is not in the registry:
\* what a killed session emits when its query ends reaches nobody, whether or
\* not its project has a new session.
KilledSessionNotifiesNobody ==
  [][ /\ \A o \in Slots : heap'[o].listeners <=> Registered(Cur', o)
      /\ \A i \in 1..Len(sent') :
            sent'[i].obj # NoObj => Registered(Cur, sent'[i].obj)
      /\ \A i \in 1..Len(events') :
            ~Registered(Cur, events'[i].obj) => sent' = <<>>
    ]_vars

\* The query of a killed session has ended, interrupted and with text to
\* flush, beside the new session of its project: the object emitted both
\* events and nothing was sent.
KilledQueryEndedBesideNewSession ==
  /\ lastOp.op = "finish"
  /\ ~Registered(Cur, lastOp.obj)
  /\ MapHas(sessions, "a")
  /\ \E i \in 1..Len(events) : events[i].name = "interrupted" /\ events[i].obj = lastOp.obj
  /\ \E i \in 1..Len(events) : events[i].name = "text-chunk" /\ events[i].obj = lastOp.obj
  /\ sent = <<>>

\* The active session has an approval outstanding: its slot holds a request
\* whose callback is still suspended.
ApprovalOutstanding(o) ==
  /\ o # NoObj /\ o = ActiveObj
  /\ heap[o].pendingApproval # 0
  /\ heap[o].pendingApproval \in backend[o].waiting

\* C39: while the active session has an approval outstanding, relayed input
\* (free text or a command the router does not know) is answered SessionBusy,
\* starts no query and leaves the session and its query as they were; and the
\* approval is released only in a step of approve, deny, cancel, kill or
\* restart.
PendingApprovalBlocksInput ==
  [][ \A o \in Slots :
        ApprovalOutstanding(o) =>
          /\ lastOp'.op = "relay" =>
                /\ reply' = "SessionBusy" /\ started' = <<>>
                /\ heap'[o] = heap[o] /\ backend'[o] = backend[o]
          /\ (\/ heap'[o].pendingApproval # heap[o].pendingApproval
              \/ \E i \in 1..Len(released') :
                   released'[i].obj = o /\ released'[i].cb = heap[o].pendingApproval) =>
                lastOp'.op \in {"approve", "cancel", "kill", "restart"}
    ]_vars

\* C40: kill and restart of a session that is running with an approval
\* outstanding reject that approval in the same step and leave no callback of
\* the removed session suspended; and no approve or deny afterwards releases a
\* callback of a session that is not in the registry.
RemovalRejectsItsApprovals ==
  [][ /\ \A o \in Slots :
            (/\ lastOp'.op \in {"kill", "restart"} /\ lastOp'.obj = o
             /\ ApprovalOutstanding(o) /\ heap[o].isActive) =>
              /\ \E i \in 1..Len(released') :
                    /\ released'[i].obj = o /\ released'[i].how = "reject"
                    /\ released'[i].cb = heap[o].pendingApproval
              /\ backend'[o].waiting = {}
      /\ lastOp'.op = "approve" =>
            \A i \in 1..Len(released') : Registered(Cur, released'[i].obj)
    ]_vars

====
